---- MODULE Spec2Model ----
(***************************************************************************)
(* The streaming handler coding_agent of src/agentstack_agents/agent.py:   *)
(* configuration checks, the upstream streaming call, the per-line decode  *)
(* and the fence-detecting state machine that turns content deltas into    *)
(* plain-text events and artifact create / update events.                  *)
(*                                                                         *)
(* Texts that come from the stream are sequences of one-character strings. *)
(* Fixed literals of the program ("LLM config not found", trajectory       *)
(* titles) are carried as TLA+ strings in the field lit of an event.       *)
(***************************************************************************)
EXTENDS Integers, Sequences, FiniteSets, TLC

(* Bounds of the model *)
MaxStreamTokens == 3
MaxSkipped == 1
MaxTextTokens == 7

VARIABLES
    pc,                  \* position in coding_agent
    llm,                 \* the LLM extension: "none", "nodefault" or "ok"
    canvas_edit_request, \* whether the turn carries a canvas edit request
    status,              \* class of the HTTP response: "none", "2xx", "non2xx"
    requested,           \* client.stream(...) has been issued
    line,                \* the line last read from response.aiter_lines()
    nlines,              \* number of lines read
    deltas,              \* the non-empty content deltas received, in order
    response_text,
    in_code_block,
    code_buffer,
    language,
    artifact_id,         \* 0 is None
    pre_code_text,
    next_id,             \* identifiers AgentArtifact() has handed out
    emitted,             \* everything yielded, in order
    stored,              \* everything passed to context.store, in order
    text,                \* the argument of extract_code_blocks
    blocks,              \* the list extract_code_blocks returns
    primary              \* index in blocks of the selected block, 0 for none

vars == <<pc, llm, canvas_edit_request, status, requested, line, nlines, deltas,
          response_text, in_code_block, code_buffer, language, artifact_id,
          pre_code_text, next_id, emitted, stored, text, blocks, primary>>

buffered == <<text, blocks, primary>>

parser == <<in_code_block, code_buffer, language, artifact_id, pre_code_text, next_id>>

io == <<emitted, stored>>

env == <<llm, canvas_edit_request>>

(***************************************************************************)
(* Characters.  The lexer of the tools rejects a backquote inside a string *)
(* literal, so the fence character U+0060 is written as the apostrophe; it *)
(* is only ever compared for equality.                                     *)
(***************************************************************************)
BQ == "'"
NL == "\n"
SP == " "
Marker == <<BQ, BQ, BQ>>
DefaultLanguage == <<"t", "e", "x", "t">>
CodeSuffix == <<" ", "C", "o", "d", "e">>
Whitespace == {SP, NL, "\t"}
LowerLetters == <<"a", "b", "c", "d", "e", "f", "g", "h", "i", "j", "k", "l", "m", "n", "o", "p", "q", "r", "s", "t", "u", "v", "w", "x", "y", "z">>
UpperLetters == <<"A", "B", "C", "D", "E", "F", "G", "H", "I", "J", "K", "L", "M", "N", "O", "P", "Q", "R", "S", "T", "U", "V", "W", "X", "Y", "Z">>
LowerCase == {LowerLetters[i] : i \in DOMAIN LowerLetters}
UpperCase == {UpperLetters[i] : i \in DOMAIN UpperLetters}
Digits == {"0", "1", "2", "3", "4", "5", "6", "7", "8", "9"}

(* the class \w of the pattern at line 30 *)
WordChars == LowerCase \cup UpperCase \cup Digits \cup {"_"}

(* The pieces chunks are built from, and every chunk of at most MaxStreamTokens pieces *)
Tokens == {Marker, <<BQ, BQ>>, <<BQ>>, <<NL>>, <<"a">>, <<SP>>}

RECURSIVE Flatten(_)
Flatten(ts) == IF ts = <<>> THEN <<>> ELSE Head(ts) \o Flatten(Tail(ts))

ChunkSet == UNION {{Flatten(ts) : ts \in [1..n -> Tokens]} : n \in 1..MaxStreamTokens}

(* str.__contains__ / str.find for the marker: index of the first "```" at or after from, 0 if none *)
IsMarkerAt(s, i) == i >= 1 /\ i + 2 <= Len(s) /\ s[i] = BQ /\ s[i+1] = BQ /\ s[i+2] = BQ

FindMarkerFrom(s, from) ==
    LET hits == {i \in from..(Len(s) - 2) : IsMarkerAt(s, i)}
    IN IF hits = {} THEN 0 ELSE CHOOSE i \in hits : \A j \in hits : i <= j

HasMarkerAccumulated(s) == FindMarkerFrom(response_text \o s, 1) # 0

(* "```" in content *)
HasMarker(s) == FindMarkerFrom(s, 1) # 0

(* content.split("```", 1): <<parts[0], parts[1]>> for a text that holds the marker *)
SplitMarker(s) ==
    LET i == FindMarkerFrom(s, 1)
    IN <<SubSeq(s, 1, i - 1), SubSeq(s, i + 3, Len(s))>>

FindNewline(s) ==
    LET hits == {i \in 1..Len(s) : s[i] = NL}
    IN IF hits = {} THEN 0 ELSE CHOOSE i \in hits : \A j \in hits : i <= j

(* remaining.split('\n', 1) for a text that holds a newline *)
SplitNewline(s) ==
    LET i == FindNewline(s)
    IN <<SubSeq(s, 1, i - 1), SubSeq(s, i + 1, Len(s))>>

(* str.strip(): leading and trailing whitespace removed *)
Strip(s) ==
    LET keep == {i \in 1..Len(s) : s[i] \notin Whitespace}
    IN IF keep = {} THEN <<>>
       ELSE LET lo == CHOOSE i \in keep : \A j \in keep : i <= j
                hi == CHOOSE i \in keep : \A j \in keep : i >= j
            IN SubSeq(s, lo, hi)

LanguageOfUnstripped(s) == IF s = <<>> THEN DefaultLanguage ELSE s

(* lang.strip() or "text" *)
LanguageOf(s) == IF Strip(s) = <<>> THEN DefaultLanguage ELSE Strip(s)

IsCased(c) == c \in LowerCase \/ c \in UpperCase

Upper(c) ==
    IF c \in LowerCase
    THEN UpperLetters[CHOOSE i \in DOMAIN LowerLetters : LowerLetters[i] = c]
    ELSE c

Lower(c) ==
    IF c \in UpperCase
    THEN LowerLetters[CHOOSE i \in DOMAIN UpperLetters : UpperLetters[i] = c]
    ELSE c

(* str.title(): a cased character is upper-cased after an uncased one, lower-cased otherwise *)
Title(s) ==
    [i \in 1..Len(s) |->
        IF i = 1 \/ ~IsCased(s[i-1]) THEN Upper(s[i]) ELSE Lower(s[i])]

(* f"{language.title()} Code" *)
ArtifactName(lang) == Title(lang) \o CodeSuffix

(* f"```{language}\n{code_buffer}" *)
FenceHeader(lang, code) == Marker \o lang \o <<NL>> \o code

(***************************************************************************)
(* Events.  An event is what the generator yields or what context.store    *)
(* receives.  op names the statement that built an artifact: "create"      *)
(* (line 228), "final" (line 243), "update" (line 252).                    *)
(***************************************************************************)
TextEventStripped(t) == [kind |-> "text", op |-> "", id |-> 0, name |-> <<>>, text |-> Strip(t), lit |-> ""]

TextEvent(t) == [kind |-> "text", op |-> "", id |-> 0, name |-> <<>>, text |-> t, lit |-> ""]

Trajectory(title) == [kind |-> "trajectory", op |-> "", id |-> 0, name |-> <<>>, text |-> <<>>, lit |-> title]

ErrorMessage(msg) == [kind |-> "message", op |-> "", id |-> 0, name |-> <<>>, text |-> <<>>, lit |-> msg]

ResponseMessage(t) == [kind |-> "message", op |-> "", id |-> 0, name |-> <<>>, text |-> t, lit |-> ""]

InputMessage == [kind |-> "input", op |-> "", id |-> 0, name |-> <<>>, text |-> <<>>, lit |-> ""]

Artifact(o, i, lang, t) == [kind |-> "artifact", op |-> o, id |-> i, name |-> ArtifactName(lang), text |-> t, lit |-> ""]

NoLine == [kind |-> "none", content |-> <<>>]

(* Number of non-overlapping markers of a text, scanning left to right *)
RECURSIVE MarkerCountFrom(_, _)
MarkerCountFrom(s, from) ==
    LET i == FindMarkerFrom(s, from)
    IN IF i = 0 THEN 0 ELSE 1 + MarkerCountFrom(s, i + 3)

MarkerCount(s) == MarkerCountFrom(s, 1)

(* Pieces a chunk is made of, a marker or a pair of fence characters counting as one *)
RECURSIVE CostFrom(_, _)
CostFrom(c, i) ==
    IF i > Len(c) THEN 0
    ELSE IF IsMarkerAt(c, i) THEN 1 + CostFrom(c, i + 3)
    ELSE IF c[i] = BQ /\ i < Len(c) /\ c[i + 1] = BQ THEN 1 + CostFrom(c, i + 2)
    ELSE 1 + CostFrom(c, i + 1)

Cost(c) == CostFrom(c, 1)

RECURSIVE TotalCost(_)
TotalCost(cs) == IF cs = <<>> THEN 0 ELSE Cost(Head(cs)) + TotalCost(Tail(cs))

(* The chunks of at most k pieces *)
ChunksByCost == [k \in 0..MaxStreamTokens |-> {c \in ChunkSet : Cost(c) <= k}]

(* The chunks the stream may still deliver *)
NextChunks == ChunksByCost[MaxStreamTokens - TotalCost(deltas)]

(* Lines read that carried no content *)
Skipped == nlines - Len(deltas)

Init ==
    /\ pc = "start"
    /\ llm \in {"none", "nodefault", "ok"}
    /\ canvas_edit_request \in BOOLEAN
    /\ status = "none"
    /\ requested = FALSE
    /\ line = NoLine
    /\ nlines = 0
    /\ deltas = <<>>
    /\ response_text = <<>>
    /\ in_code_block = FALSE
    /\ code_buffer = <<>>
    /\ language = <<>>
    /\ artifact_id = 0
    /\ pre_code_text = <<>>
    /\ next_id = 0
    /\ emitted = <<>>
    /\ stored = <<>>
    /\ text = <<>>
    /\ blocks = <<>>
    /\ primary = 0

(* lines 95-97: store the input, announce the start *)
Start ==
    /\ pc = "start"
    /\ stored' = Append(stored, InputMessage)
    /\ emitted' = Append(emitted, Trajectory("Initializing"))
    /\ pc' = "prompt"
    /\ UNCHANGED <<buffered, env, status, requested, line, nlines, deltas, response_text, parser>>

(* lines 107-134: a canvas edit request builds the edit prompt and reports it *)
CanvasEditPrompt ==
    /\ pc = "prompt"
    /\ canvas_edit_request
    /\ emitted' = Append(emitted, Trajectory("Canvas Edit"))
    /\ pc' = "config"
    /\ UNCHANGED <<buffered, env, status, requested, line, nlines, deltas, response_text, parser, stored>>

(* lines 135-136: otherwise the prompt is the user's message *)
PlainPrompt ==
    /\ pc = "prompt"
    /\ ~canvas_edit_request
    /\ pc' = "config"
    /\ UNCHANGED <<buffered, env, status, requested, line, nlines, deltas, response_text, parser, io>>

TerminalNotStored(msg) ==
    /\ emitted' = Append(emitted, ErrorMessage(msg))
    /\ stored' = stored
    /\ pc' = "done"

(* lines 141-144, 149-152: yield msg; await context.store(msg); return *)
Terminal(msg) ==
    /\ emitted' = Append(emitted, ErrorMessage(msg))
    /\ stored' = Append(stored, ErrorMessage(msg))
    /\ pc' = "done"

(* lines 139-144 *)
LLMUnavailable ==
    /\ pc = "config"
    /\ llm = "none"
    /\ Terminal("LLM service not available")
    /\ UNCHANGED <<buffered, env, status, requested, line, nlines, deltas, response_text, parser>>

(* lines 146-152 *)
LLMConfigMissing ==
    /\ pc = "config"
    /\ llm = "nodefault"
    /\ Terminal("LLM config not found")
    /\ UNCHANGED <<buffered, env, status, requested, line, nlines, deltas, response_text, parser>>

(* lines 154-180: announce the model, build the request, reset the locals *)
Prepare ==
    /\ pc = "config"
    /\ llm = "ok"
    /\ emitted' = Append(emitted, Trajectory("Processing"))
    /\ response_text' = <<>>
    /\ in_code_block' = FALSE
    /\ code_buffer' = <<>>
    /\ language' = <<>>
    /\ artifact_id' = 0
    /\ pre_code_text' = <<>>
    /\ pc' = "connect"
    /\ UNCHANGED <<buffered, env, status, requested, line, nlines, deltas, next_id, stored>>

(* lines 182-193: the request is sent; the response status is not inspected *)
Connect ==
    /\ pc = "connect"
    /\ requested' = TRUE
    /\ status' \in {"2xx", "non2xx"}
    /\ pc' = "stream"
    /\ UNCHANGED <<buffered, env, line, nlines, deltas, response_text, parser, io>>

(* lines 270-275: except Exception *)
Raise(what) ==
    /\ emitted' = emitted \o <<Trajectory("Error"), ErrorMessage(what)>>
    /\ stored' = Append(stored, ErrorMessage(what))
    /\ pc' = "done"

(* the connection cannot be made or times out (raised by client.stream, line 188) *)
ConnectError ==
    /\ pc = "connect"
    /\ requested' = TRUE
    /\ Raise("Error: connect")
    /\ UNCHANGED <<buffered, env, status, line, nlines, deltas, response_text, parser>>

(* the transport fails while lines are read (raised by aiter_lines, line 194) *)
StreamError ==
    /\ pc = "stream"
    /\ Raise("Error: stream")
    /\ UNCHANGED <<buffered, env, status, requested, line, nlines, deltas, response_text, parser>>

(* line 194: the loop reads one more line *)
Read(l) ==
    /\ pc = "stream"
    /\ line' = l
    /\ nlines' = nlines + 1

(* a line that is passed over *)
Skip(l) ==
    /\ Skipped < MaxSkipped
    /\ Read(l)

ContentLine(c) == [kind |-> "content", content |-> c]

(* lines 195-196: a line without the "data: " prefix *)
NoPrefixLine ==
    /\ Skip([kind |-> "noprefix", content |-> <<>>])
    /\ UNCHANGED <<buffered, pc, env, status, requested, deltas, response_text, parser, io>>

(* lines 198-200: the [DONE] line leaves the loop *)
DoneLine ==
    /\ Read([kind |-> "done", content |-> <<>>])
    /\ pc' = "finish"
    /\ UNCHANGED <<buffered, env, status, requested, deltas, response_text, parser, io>>

BadJsonLineAborts ==
    /\ Skip([kind |-> "badjson", content |-> <<>>])
    /\ Raise("Error: json")
    /\ UNCHANGED <<buffered, env, status, requested, deltas, response_text, parser>>

(* lines 202-203, 262-263: json.loads raises JSONDecodeError *)
BadJsonLine ==
    /\ Skip([kind |-> "badjson", content |-> <<>>])
    /\ UNCHANGED <<buffered, pc, env, status, requested, deltas, response_text, parser, io>>

(* lines 204-207: no choices, or a delta whose content is missing or empty *)
NoContentLine ==
    /\ Skip(ContentLine(<<>>))
    /\ UNCHANGED <<buffered, pc, env, status, requested, deltas, response_text, parser, io>>

(* lines 203-206: valid JSON of another shape makes .get or the indexing raise *)
BadShapeLine ==
    /\ Read([kind |-> "badshape", content |-> <<>>])
    /\ Raise("Error: shape")
    /\ UNCHANGED <<buffered, env, status, requested, deltas, response_text, parser>>

ReceiveOutsideOnly(c) ==
    /\ status = "2xx"
    /\ Read(ContentLine(c))
    /\ response_text' = IF in_code_block THEN response_text ELSE response_text \o c
    /\ deltas' = Append(deltas, c)

(* line 208, for a non-empty content.  Content deltas are the body of a
   successful response; an error response carries no "data: " content lines. *)
Receive(c) ==
    /\ status = "2xx"
    /\ Read(ContentLine(c))
    /\ response_text' = response_text \o c
    /\ deltas' = Append(deltas, c)

OpenedLanguageNeedsNewline(remaining) ==
    IF FindNewline(remaining) # 0
    THEN LanguageOf(SplitNewline(remaining)[1])
    ELSE DefaultLanguage

(* lines 217-224: language and first code of the text after the opening marker *)
OpenedLanguage(remaining) ==
    IF FindNewline(remaining) # 0
    THEN LanguageOf(SplitNewline(remaining)[1])
    ELSE LanguageOf(remaining)

OpenedCode(remaining) ==
    IF FindNewline(remaining) # 0 THEN SplitNewline(remaining)[2] ELSE <<>>

(* lines 244, 253: artifact_id=artifact_id, the identifier an update carries *)
UpdateIdFresh == next_id + 1

UpdateId == artifact_id

(* lines 211-234: a marker outside a block opens one *)
OpenBlock(c) ==
    /\ ~in_code_block
    /\ HasMarker(c)
    /\ Receive(c)
    /\ LET parts == SplitMarker(c)
           lang == OpenedLanguage(parts[2])
           code == OpenedCode(parts[2])
           artifact == Artifact("create", next_id + 1, lang, FenceHeader(lang, code))
       IN /\ pre_code_text' = pre_code_text \o parts[1]
          /\ language' = lang
          /\ code_buffer' = code
          /\ in_code_block' = TRUE
          /\ next_id' = next_id + 1
          /\ artifact_id' = artifact.id
          /\ emitted' = Append(emitted, artifact)
          /\ stored' = Append(stored, artifact)
    /\ UNCHANGED <<buffered, pc, env, status, requested>>

CloseBlockNoAccumulate(c) ==
    /\ in_code_block
    /\ HasMarker(c)
    /\ Receive(c)
    /\ LET parts == SplitMarker(c)
       IN /\ code_buffer' = code_buffer
          /\ in_code_block' = FALSE
          /\ emitted' = Append(emitted, Artifact("final", UpdateId, language, parts[1]))
    /\ UNCHANGED <<buffered, pc, env, status, requested, language, artifact_id, pre_code_text, next_id, stored>>

CloseBlockStored(c) ==
    /\ in_code_block
    /\ HasMarker(c)
    /\ Receive(c)
    /\ LET parts == SplitMarker(c)
       IN /\ code_buffer' = code_buffer \o parts[1]
          /\ in_code_block' = FALSE
          /\ emitted' = Append(emitted, Artifact("final", UpdateId, language, parts[1]))
          /\ stored' = Append(stored, Artifact("final", UpdateId, language, parts[1]))
    /\ UNCHANGED <<buffered, pc, env, status, requested, language, artifact_id, pre_code_text, next_id>>

(* lines 235-248: a marker inside a block closes it *)
CloseBlock(c) ==
    /\ in_code_block
    /\ HasMarker(c)
    /\ Receive(c)
    /\ LET parts == SplitMarker(c)
       IN /\ code_buffer' = code_buffer \o parts[1]
          /\ in_code_block' = FALSE
          /\ emitted' = Append(emitted, Artifact("final", UpdateId, language, parts[1]))
    /\ UNCHANGED <<buffered, pc, env, status, requested, language, artifact_id, pre_code_text, next_id, stored>>

AppendBlockSendsBuffer(c) ==
    /\ in_code_block
    /\ ~HasMarker(c)
    /\ Receive(c)
    /\ code_buffer' = code_buffer \o c
    /\ emitted' = Append(emitted, Artifact("update", UpdateId, language, code_buffer \o c))
    /\ UNCHANGED <<buffered, pc, env, status, requested, in_code_block, language, artifact_id,
                   pre_code_text, next_id, stored>>

(* lines 249-257: any other content inside a block extends it *)
AppendBlock(c) ==
    /\ in_code_block
    /\ ~HasMarker(c)
    /\ Receive(c)
    /\ code_buffer' = code_buffer \o c
    /\ emitted' = Append(emitted, Artifact("update", UpdateId, language, c))
    /\ UNCHANGED <<buffered, pc, env, status, requested, in_code_block, language, artifact_id,
                   pre_code_text, next_id, stored>>

(* lines 258-260: content outside a block and without a marker is relayed *)
PlainText(c) ==
    /\ ~in_code_block
    /\ ~HasMarker(c)
    /\ Receive(c)
    /\ emitted' = Append(emitted, TextEvent(c))
    /\ UNCHANGED <<buffered, pc, env, status, requested, parser, stored>>

(* line 194: aiter_lines() is exhausted *)
EndOfLines ==
    /\ pc = "stream"
    /\ pc' = "finish"
    /\ UNCHANGED <<buffered, env, status, requested, line, nlines, deltas, response_text, parser, io>>

(* lines 265-268: the whole response is stored, completion is announced *)
Finish ==
    /\ pc = "finish"
    /\ stored' = Append(stored, ResponseMessage(response_text))
    /\ emitted' = Append(emitted, Trajectory("Complete"))
    /\ pc' = "done"
    /\ UNCHANGED <<buffered, env, status, requested, line, nlines, deltas, response_text, parser>>

Next ==
    \/ Start
    \/ CanvasEditPrompt
    \/ PlainPrompt
    \/ LLMUnavailable
    \/ LLMConfigMissing
    \/ Prepare
    \/ Connect
    \/ ConnectError
    \/ StreamError
    \/ NoPrefixLine
    \/ DoneLine
    \/ BadJsonLine
    \/ NoContentLine
    \/ BadShapeLine
    \/ \E c \in NextChunks : OpenBlock(c)
    \/ \E c \in NextChunks : CloseBlock(c)
    \/ \E c \in NextChunks : AppendBlock(c)
    \/ \E c \in NextChunks : PlainText(c)
    \/ EndOfLines
    \/ Finish

Spec == Init /\ [][Next]_vars

(***************************************************************************)
(* The stream of the worked scenario, "Here:\n```python\nprint(1)\n```\nDone." *)
(* in three chunks, and the same text with the code in a chunk of its own. *)
(***************************************************************************)
ScenarioChunks ==
    << <<"H", "e", "r", "e", ":", NL, BQ, BQ, BQ, "p", "y">>,
       <<"t", "h", "o", "n", NL, "p", "r", "i", "n", "t", "(", "1", ")", NL, BQ, BQ, BQ>>,
       <<NL, "D", "o", "n", "e", ".">> >>

ScenarioFiner ==
    << <<"H", "e", "r", "e", ":", NL, BQ, BQ, BQ, "p", "y">>,
       <<"t", "h", "o", "n", NL>>,
       <<"p", "r", "i", "n", "t", "(", "1", ")", NL, BQ, BQ, BQ>>,
       <<NL, "D", "o", "n", "e", ".">> >>

ScenarioStreams == {ScenarioChunks, ScenarioFiner}

(* The chunks a scenario stream delivers after the deltas received so far *)
ScenarioNext ==
    {st[Len(deltas) + 1] : st \in {x \in ScenarioStreams :
        Len(x) > Len(deltas) /\ SubSeq(x, 1, Len(deltas)) = deltas}}

NextScenario ==
    \/ Start
    \/ CanvasEditPrompt
    \/ PlainPrompt
    \/ LLMUnavailable
    \/ LLMConfigMissing
    \/ Prepare
    \/ Connect
    \/ ConnectError
    \/ StreamError
    \/ NoPrefixLine
    \/ DoneLine
    \/ BadJsonLine
    \/ NoContentLine
    \/ BadShapeLine
    \/ \E c \in ScenarioNext : OpenBlock(c)
    \/ \E c \in ScenarioNext : CloseBlock(c)
    \/ \E c \in ScenarioNext : AppendBlock(c)
    \/ \E c \in ScenarioNext : PlainText(c)
    \/ EndOfLines
    \/ Finish

SpecScenario == Init /\ [][NextScenario]_vars

(***************************************************************************)
(* The buffered strategy: extract_code_blocks (lines 28-43) applied to a   *)
(* complete text, followed by the selection of the primary block.          *)
(***************************************************************************)
ExtractTokens == {Marker, <<NL>>, <<"a">>, <<SP>>}

TextSet == UNION {{Flatten(ts) : ts \in [1..n -> ExtractTokens]} : n \in 0..MaxTextTokens}

(* (\w+)? is greedy: the index after the longest run of word characters from from *)
WordRunEnd(s, from) ==
    LET stops == {k \in from..(Len(s) + 1) : k = Len(s) + 1 \/ s[k] \notin WordChars}
    IN CHOOSE k \in stops : \A j \in stops : k <= j

ClosingFenceOrEnd(s, from) ==
    IF FindMarkerFrom(s, from) # 0 THEN FindMarkerFrom(s, from) ELSE Len(s) + 1

(* (.*?)``` is lazy: the first marker at or after from, 0 if none *)
ClosingFence(s, from) == FindMarkerFrom(s, from)

(* line 34: match.group(1) or "text"; the word lies in s[i+3 .. w-1] *)
MatchLanguage(s, i, w) == IF w = i + 3 THEN DefaultLanguage ELSE SubSeq(s, i + 3, w - 1)

MatchCodeRaw(s, w, j) == SubSeq(s, w + 1, j - 1)

(* line 35: match.group(2).strip(); the group lies in s[w+1 .. j-1] *)
MatchCode(s, w, j) == Strip(SubSeq(s, w + 1, j - 1))

(* lines 36-41, with the 0-based offsets of match.start() and match.end() *)
Block(s, i, w, j) ==
    [language |-> MatchLanguage(s, i, w), code |-> MatchCode(s, w, j),
     start |-> i - 1, end |-> j + 2]

(* re.finditer: the leftmost match at or after pos, then on from the match's end *)
RECURSIVE FindIter(_, _)
FindIter(s, pos) ==
    LET i == FindMarkerFrom(s, pos)
    IN IF i = 0 THEN <<>>
       ELSE LET w == WordRunEnd(s, i + 3)
                j == IF w <= Len(s) /\ s[w] = NL THEN ClosingFence(s, w + 1) ELSE 0
            IN IF j = 0 THEN FindIter(s, i + 1)
               ELSE <<Block(s, i, w, j)>> \o FindIter(s, j + 3)

ExtractCodeBlocks(t) == FindIter(t, 1)

RECURSIVE BestLast(_, _, _)
BestLast(bs, i, best) ==
    IF i > Len(bs) THEN best
    ELSE IF best = 0 \/ Len(bs[i].code) >= Len(bs[best].code)
         THEN BestLast(bs, i + 1, i)
         ELSE BestLast(bs, i + 1, best)

SelectPrimaryLast(bs) == BestLast(bs, 1, 0)

(* one pass from the left, a later block replacing the best only when strictly longer *)
RECURSIVE BestFrom(_, _, _)
BestFrom(bs, i, best) ==
    IF i > Len(bs) THEN best
    ELSE IF best = 0 \/ Len(bs[i].code) > Len(bs[best].code)
         THEN BestFrom(bs, i + 1, i)
         ELSE BestFrom(bs, i + 1, best)

(* the primary block: 0 when there is none *)
SelectPrimary(bs) == BestFrom(bs, 1, 0)

InitExtract ==
    /\ pc = "extract"
    /\ text \in TextSet
    /\ blocks = <<>>
    /\ primary = 0
    /\ llm = "ok"
    /\ canvas_edit_request = FALSE
    /\ status = "none"
    /\ requested = FALSE
    /\ line = NoLine
    /\ nlines = 0
    /\ deltas = <<>>
    /\ response_text = <<>>
    /\ in_code_block = FALSE
    /\ code_buffer = <<>>
    /\ language = <<>>
    /\ artifact_id = 0
    /\ pre_code_text = <<>>
    /\ next_id = 0
    /\ emitted = <<>>
    /\ stored = <<>>

handler == <<llm, canvas_edit_request, status, requested, line, nlines, deltas,
             response_text, in_code_block, code_buffer, language, artifact_id,
             pre_code_text, next_id, emitted, stored>>

(* lines 28-43 *)
Extract ==
    /\ pc = "extract"
    /\ blocks' = ExtractCodeBlocks(text)
    /\ pc' = "extracted"
    /\ UNCHANGED <<text, primary, handler>>

(* the selection among the extracted blocks *)
Select ==
    /\ pc = "extracted"
    /\ primary' = SelectPrimary(blocks)
    /\ pc' = "selected"
    /\ UNCHANGED <<text, blocks, handler>>

NextExtract ==
    \/ Extract
    \/ Select

SpecExtract == InitExtract /\ [][NextExtract]_vars

TypeOK ==
    /\ pc \in {"start", "prompt", "config", "connect", "stream", "finish", "done",
              "extract", "extracted", "selected"}
    /\ nlines \in 0..(MaxStreamTokens + MaxSkipped + 1)
    /\ in_code_block \in BOOLEAN
    /\ artifact_id \in 0..next_id

(***************************************************************************)
(* Vocabulary of the properties                                            *)
(***************************************************************************)
IsContentEvent(e) == e.kind \in {"text", "artifact"}

IsMessage(e) == e.kind = "message"

ContentEvents == SelectSeq(emitted, IsContentEvent)

RECURSIVE ConcatText(_)
ConcatText(es) == IF es = <<>> THEN <<>> ELSE Head(es).text \o ConcatText(Tail(es))

ArtifactOps(o) == {i \in DOMAIN emitted : emitted[i].kind = "artifact" /\ emitted[i].op = o}

(* the invocation ended through lines 265-268 *)
Completed == pc = "done" /\ emitted[Len(emitted)] = Trajectory("Complete")

(* the invocation ended through the handler at lines 270-275 *)
Raised == pc = "done" /\ Len(emitted) >= 2 /\ emitted[Len(emitted) - 1] = Trajectory("Error")

(* exactly one block: marker, optional word, newline, content, marker, and no other marker *)
OneCompleteBlock(t) ==
    /\ MarkerCount(t) = 2
    /\ LET open == FindMarkerFrom(t, 1)
           close == FindMarkerFrom(t, open + 3)
           nls == {k \in (open + 3)..(close - 1) : t[k] = NL}
       IN /\ nls # {}
          /\ \A k \in (open + 3)..(close - 1) :
                (\A n \in nls : k < n) => t[k] \in WordChars

(* no boundary between two chunks falls between two fence characters *)
NoBisect(cs) ==
    \A i \in 1..(Len(cs) - 1) : ~(cs[i][Len(cs[i])] = BQ /\ cs[i+1][1] = BQ)

(* this step reads a line that carries a content delta *)
ReadsContent == pc = "stream" /\ nlines' = nlines + 1 /\ line'.kind = "content"

(* the events this step yields *)
NewEvents == SubSeq(emitted', Len(emitted) + 1, Len(emitted'))

(***************************************************************************)
(* C1: for a text with exactly one complete fenced block, split into       *)
(* chunks without bisecting a marker, the contents of the emitted text     *)
(* and artifact events concatenate to the original text.                   *)
(***************************************************************************)
C1_ConcatenationReproducesText ==
    (Completed /\ OneCompleteBlock(response_text) /\ NoBisect(deltas))
        => ConcatText(ContentEvents) = response_text

(***************************************************************************)
(* C2: for such a text and chunking, exactly one create and exactly one    *)
(* closing update are emitted and the parser ends outside a block.         *)
(***************************************************************************)
C2_OneCreateOneFinalize ==
    (Completed /\ OneCompleteBlock(response_text) /\ NoBisect(deltas))
        => /\ Cardinality(ArtifactOps("create")) = 1
           /\ Cardinality(ArtifactOps("final")) = 1
           /\ ~in_code_block

(***************************************************************************)
(* C3: a chunk arriving outside a block with a marker: the non-empty text  *)
(* before the first marker is emitted as a text event, before the create   *)
(* of the block the marker opens.                                          *)
(***************************************************************************)
C3_TextBeforeMarkerEmitted ==
    [][(ReadsContent /\ ~in_code_block /\ HasMarker(line'.content)
            /\ SplitMarker(line'.content)[1] # <<>>)
        => \E i, j \in DOMAIN NewEvents :
              /\ i < j
              /\ NewEvents[i] = TextEvent(SplitMarker(line'.content)[1])
              /\ NewEvents[j].kind = "artifact" /\ NewEvents[j].op = "create"]_vars

(***************************************************************************)
(* C4: a chunk arriving inside a block with a marker: the text after the   *)
(* first marker is handled as a fresh chunk arriving outside a block, so   *)
(* plain text is emitted as a text event and a further marker opens a new  *)
(* block.                                                                  *)
(***************************************************************************)
C4_TextAfterCloseProcessed ==
    [][(ReadsContent /\ in_code_block /\ HasMarker(line'.content)
            /\ SplitMarker(line'.content)[2] # <<>>)
        => LET after == SplitMarker(line'.content)[2]
               last == emitted'[Len(emitted')]
           IN IF HasMarker(after)
              THEN in_code_block' /\ last.kind = "artifact" /\ last.op = "create"
              ELSE ~in_code_block' /\ last = TextEvent(after)]_vars

(***************************************************************************)
(* C5: when the stream ends inside a block, a closing event for the open   *)
(* artifact is emitted before the invocation completes.                    *)
(***************************************************************************)
C5_TruncatedBlockClosed ==
    (Completed /\ in_code_block)
        => \E i \in ArtifactOps("final") : emitted[i].id = artifact_id

(***************************************************************************)
(* C6: per artifact identifier exactly one create is emitted, it precedes  *)
(* every update with that identifier, no update with that identifier       *)
(* follows its closing update, and a later block has another identifier.   *)
(***************************************************************************)
C6_ArtifactLifecycle ==
    /\ \A i \in DOMAIN emitted : emitted[i].kind = "artifact" =>
          /\ emitted[i].id \in 1..next_id
          /\ Cardinality({j \in ArtifactOps("create") : emitted[j].id = emitted[i].id}) = 1
          /\ emitted[i].op # "create" =>
                \E j \in ArtifactOps("create") : j < i /\ emitted[j].id = emitted[i].id
    /\ \A i \in ArtifactOps("final") : \A j \in DOMAIN emitted :
          (j > i /\ emitted[j].kind = "artifact") => emitted[j].id # emitted[i].id

C6_Witness ==
    \E i, j, k \in DOMAIN emitted :
        /\ i < j /\ j < k
        /\ emitted[i].kind = "artifact" /\ emitted[i].op = "create"
        /\ emitted[j].kind = "artifact" /\ emitted[j].op = "final"
        /\ emitted[j].id = emitted[i].id
        /\ emitted[k].kind = "artifact" /\ emitted[k].op = "create"
        /\ emitted[k].id # emitted[i].id

(***************************************************************************)
(* C7 as stated: any chunk without a marker arriving outside a block       *)
(* yields exactly one text event equal to the chunk, no artifact event,    *)
(* and leaves the parser state unchanged.                                  *)
(***************************************************************************)
C7_AnyPlainChunkRelayed ==
    [][(ReadsContent /\ ~in_code_block /\ ~HasMarker(line'.content))
        => /\ Len(NewEvents) = 1
           /\ NewEvents[1].kind = "text" /\ NewEvents[1].text = line'.content
           /\ UNCHANGED <<in_code_block, language, code_buffer, artifact_id>>]_vars

(***************************************************************************)
(* C7 amended: any non-empty chunk without a marker arriving outside a     *)
(* block yields exactly one text event equal to the chunk, no artifact     *)
(* event, and leaves the parser state unchanged; an empty chunk yields no  *)
(* event at all and leaves the parser state unchanged.                     *)
(***************************************************************************)
C7_NonEmptyPlainChunkRelayed ==
    [][(ReadsContent /\ ~in_code_block /\ ~HasMarker(line'.content))
        => /\ IF line'.content = <<>>
              THEN NewEvents = <<>>
              ELSE /\ Len(NewEvents) = 1
                   /\ NewEvents[1].kind = "text" /\ NewEvents[1].text = line'.content
           /\ stored' = stored
           /\ UNCHANGED <<in_code_block, language, code_buffer, artifact_id>>]_vars

C7_Witness ==
    /\ pc = "stream"
    /\ line.kind = "content" /\ line.content # <<>>
    /\ ~HasMarker(line.content)
    /\ ~in_code_block
    /\ artifact_id # 0
    /\ emitted[Len(emitted)].kind = "text" /\ emitted[Len(emitted)].text = line.content

(***************************************************************************)
(* C8: without LLM service data, or without a "default" fulfillment, the   *)
(* invocation emits exactly one terminal error message, stores that same   *)
(* message, emits no text or artifact event and never issues the upstream  *)
(* call.                                                                   *)
(***************************************************************************)
C8_ConfigErrorsShortCircuit ==
    llm # "ok" =>
        /\ ~requested
        /\ ContentEvents = <<>>
        /\ pc = "done" =>
              LET expected == IF llm = "none" THEN "LLM service not available"
                              ELSE "LLM config not found"
                  sent == SelectSeq(emitted, IsMessage)
                  kept == SelectSeq(stored, IsMessage)
              IN /\ Len(sent) = 1 /\ sent[1].lit = expected
                 /\ emitted[Len(emitted)] = sent[1]
                 /\ kept = sent

C8_Witness ==
    /\ pc = "done"
    /\ llm = "nodefault"
    /\ emitted[Len(emitted)].kind = "message"
    /\ emitted[Len(emitted)].lit = "LLM config not found"

(***************************************************************************)
(* C9: any transport error of the upstream call (connection failure,       *)
(* timeout, non-2xx response, mid-stream disconnect) ends the invocation   *)
(* with exactly one error message, emitted and stored, and without a       *)
(* success completion.                                                     *)
(***************************************************************************)
C9_TransportErrorsReported ==
    (pc = "done" /\ requested
        /\ (status = "non2xx"
            \/ (Raised /\ emitted[Len(emitted)].lit \in {"Error: connect", "Error: stream"})))
        => LET sent == SelectSeq(emitted, IsMessage)
               kept == SelectSeq(stored, IsMessage)
           IN /\ Len(sent) = 1
              /\ sent[1].lit \in {"Error: connect", "Error: stream"}
              /\ kept = sent
              /\ \A i \in DOMAIN emitted : emitted[i] # Trajectory("Complete")

(***************************************************************************)
(* C10: a line whose payload is not valid JSON, or a line without the      *)
(* "data: " prefix, is skipped: it emits nothing, stores nothing, leaves   *)
(* the parser state and the accumulated response text unchanged and the    *)
(* loop goes on, so the lines after it find the state they would have      *)
(* found without it.                                                       *)
(***************************************************************************)
C10_BadLineSkipped ==
    [][(pc = "stream" /\ nlines' = nlines + 1 /\ line'.kind \in {"badjson", "noprefix"})
        => UNCHANGED <<pc, emitted, stored, response_text, deltas, in_code_block,
                       code_buffer, language, artifact_id, pre_code_text, next_id>>]_vars

C10_Witness ==
    /\ pc = "stream"
    /\ line.kind = "badjson"
    /\ in_code_block
    /\ code_buffer # <<>>

HeaderEnd(t) ==
    LET open == FindMarkerFrom(t, 1)
    IN CHOOSE k \in (open + 3)..Len(t) : t[k] = NL /\ \A m \in (open + 3)..(k - 1) : t[m] # NL

(* the word between the opening marker and that newline *)
DeclaredToken(t) == SubSeq(t, FindMarkerFrom(t, 1) + 3, HeaderEnd(t) - 1)

(* the text between that newline and the closing marker *)
Interior(t) == SubSeq(t, HeaderEnd(t) + 1, FindMarkerFrom(t, FindMarkerFrom(t, 1) + 3) - 1)

(* c is t without its leading and trailing whitespace *)
IsTrimOf(c, t) ==
    /\ c # <<>> => c[1] \notin Whitespace /\ c[Len(c)] \notin Whitespace
    /\ \E pre \in 0..Len(t) :
          /\ pre + Len(c) <= Len(t)
          /\ SubSeq(t, pre + 1, pre + Len(c)) = c
          /\ \A e \in 1..pre : t[e] \in Whitespace
          /\ \A e \in (pre + Len(c) + 1)..Len(t) : t[e] \in Whitespace

(***************************************************************************)
(* C12: extract_code_blocks returns no block for a text without a marker,  *)
(* and for a text with exactly one well-formed fenced block exactly one    *)
(* block, whose code is the whitespace-trimmed interior and whose language *)
(* is the declared token, or "text" when there is none.                    *)
(***************************************************************************)
C12_ExtractOneBlock ==
    pc \in {"extracted", "selected"} =>
        /\ MarkerCount(text) = 0 => blocks = <<>>
        /\ OneCompleteBlock(text) =>
              /\ Len(blocks) = 1
              /\ IsTrimOf(blocks[1].code, Interior(text))
              /\ blocks[1].language =
                    IF DeclaredToken(text) = <<>> THEN DefaultLanguage ELSE DeclaredToken(text)

C12_Witness ==
    /\ pc = "extracted"
    /\ OneCompleteBlock(text)
    /\ Len(blocks) = 1
    /\ blocks[1].language = <<"a">>
    /\ blocks[1].code = <<"a">>
    /\ Len(Interior(text)) = 2

(***************************************************************************)
(* C13: every block extract_code_blocks returns begins at an opening       *)
(* marker and ends just after a later closing marker; the blocks are in    *)
(* increasing start order and do not overlap; an opening fence that is     *)
(* never closed contributes no block.                                      *)
(***************************************************************************)
C13_OnlyClosedBlocks ==
    pc \in {"extracted", "selected"} =>
        /\ \A i \in DOMAIN blocks :
              /\ IsMarkerAt(text, blocks[i].start + 1)
              /\ IsMarkerAt(text, blocks[i].end - 2)
              /\ blocks[i].end - 2 >= blocks[i].start + 5
              /\ blocks[i].end <= Len(text)
              /\ i < Len(blocks) => blocks[i].end <= blocks[i + 1].start
        /\ 2 * Len(blocks) <= MarkerCount(text)

C13_Witness ==
    /\ pc = "extracted"
    /\ Len(blocks) = 2
    /\ MarkerCount(text) = 5
    /\ blocks[2].end < Len(text)

(***************************************************************************)
(* C14: the block selected as primary has the maximum code length whatever *)
(* the order of the blocks, on a tie the leftmost one is selected, and     *)
(* without blocks nothing is selected.                                     *)
(***************************************************************************)
C14_LongestLeftmostSelected ==
    pc = "selected" =>
        IF blocks = <<>> THEN primary = 0
        ELSE /\ primary \in DOMAIN blocks
             /\ \A j \in DOMAIN blocks :
                   /\ Len(blocks[j].code) <= Len(blocks[primary].code)
                   /\ Len(blocks[j].code) = Len(blocks[primary].code) => primary <= j

C14_Witness ==
    /\ pc = "selected"
    /\ Len(blocks) = 2
    /\ Len(blocks[1].code) = Len(blocks[2].code)
    /\ primary = 1

IsArtifact(e) == e.kind = "artifact"

IsCreate(e) == e.kind = "artifact" /\ e.op = "create"

IsCurrentArtifact(e) == e.kind = "artifact" /\ e.id = artifact_id

(* the identifier of the most recent create among the events yielded so far *)
LastCreateId ==
    LET cs == ArtifactOps("create")
    IN IF cs = {} THEN 0 ELSE emitted[CHOOSE i \in cs : \A j \in cs : j <= i].id

(* language and first code that the text after an opening marker declares *)
DeclaredLanguage(rem) ==
    LET nl == FindNewline(rem)
        raw == IF nl # 0 THEN SubSeq(rem, 1, nl - 1) ELSE rem
    IN IF Strip(raw) = <<>> THEN <<"t", "e", "x", "t">> ELSE Strip(raw)

DeclaredCode(rem) ==
    LET nl == FindNewline(rem)
    IN IF nl # 0 THEN SubSeq(rem, nl + 1, Len(rem)) ELSE <<>>

(***************************************************************************)
(* C15: every update emitted inside a block carries only the text taken    *)
(* from the chunk being processed (the whole chunk, or the part before the *)
(* closing marker) and the identifier of the most recent create, which is  *)
(* never null.                                                             *)
(***************************************************************************)
C15_UpdatesAreIncremental ==
    [][(ReadsContent /\ in_code_block /\ line'.content # <<>>)
        => LET c == line'.content
               m == FindMarkerFrom(c, 1)
           IN /\ Len(NewEvents) = 1
              /\ NewEvents[1].kind = "artifact"
              /\ NewEvents[1].op \in {"update", "final"}
              /\ NewEvents[1].text = IF m = 0 THEN c ELSE SubSeq(c, 1, m - 1)
              /\ NewEvents[1].id # 0
              /\ NewEvents[1].id = LastCreateId]_vars

C15_Witness ==
    /\ in_code_block
    /\ emitted[Len(emitted)].kind = "artifact"
    /\ emitted[Len(emitted)].op = "update"
    /\ emitted[Len(emitted)].id = artifact_id
    /\ code_buffer # emitted[Len(emitted)].text

(***************************************************************************)
(* C16: on opening a block the language is the trimmed text between the    *)
(* marker and the first newline of the rest of the chunk ("text" when that *)
(* is empty), or the whole trimmed rest with empty initial code when the   *)
(* rest has no newline; the create has name title-case(language) + " Code" *)
(* and content marker + language + newline + initial code; the language of *)
(* an open block does not change until the block is closed.                *)
(***************************************************************************)
C16_OpeningSetsLanguage ==
    [][/\ (ReadsContent /\ ~in_code_block /\ FindMarkerFrom(line'.content, 1) # 0)
            => LET rem == SubSeq(line'.content, FindMarkerFrom(line'.content, 1) + 3,
                                 Len(line'.content))
                   lang == DeclaredLanguage(rem)
                   code == DeclaredCode(rem)
               IN /\ in_code_block'
                  /\ language' = lang
                  /\ code_buffer' = code
                  /\ Len(NewEvents) = 1
                  /\ NewEvents[1].kind = "artifact" /\ NewEvents[1].op = "create"
                  /\ NewEvents[1].name = Title(lang) \o <<" ", "C", "o", "d", "e">>
                  /\ NewEvents[1].text = <<BQ, BQ, BQ>> \o lang \o <<NL>> \o code
       /\ (in_code_block /\ in_code_block') => language' = language]_vars

C16_Witness ==
    /\ in_code_block
    /\ line.kind = "content"
    /\ line.content = <<BQ, BQ, BQ, "a", SP>>
    /\ language = <<"a">>
    /\ code_buffer = <<>>
    /\ emitted[Len(emitted)].op = "create"
    /\ emitted[Len(emitted)].name = <<"A", " ", "C", "o", "d", "e">>

(***************************************************************************)
(* C17: a marker split across a chunk boundary causes no transition: the   *)
(* two chunks, neither holding a whole marker, are relayed as two plain    *)
(* text events when outside a block, or as two updates of the same         *)
(* artifact when inside, and no block is opened or closed by them.         *)
(***************************************************************************)
C17_SplitMarkerIgnored ==
    /\ Len(ContentEvents) = Len(deltas)
    /\ \A i \in 1..(Len(deltas) - 1) :
          (/\ MarkerCount(deltas[i]) = 0
           /\ MarkerCount(deltas[i + 1]) = 0
           /\ MarkerCount(deltas[i] \o deltas[i + 1]) > 0)
          => LET a == ContentEvents[i]
                 b == ContentEvents[i + 1]
             IN /\ a.text = deltas[i]
                /\ b.text = deltas[i + 1]
                /\ \/ a.kind = "text" /\ b.kind = "text"
                   \/ /\ a.kind = "artifact" /\ a.op = "update"
                      /\ b.kind = "artifact" /\ b.op = "update"
                      /\ a.id = b.id

C17_Witness ==
    /\ in_code_block
    /\ Len(deltas) = 3
    /\ MarkerCount(deltas[2]) = 0
    /\ MarkerCount(deltas[3]) = 0
    /\ MarkerCount(deltas[2] \o deltas[3]) = 1
    /\ ContentEvents[3].op = "update"

(***************************************************************************)
(* C18: once a block has been opened, the code buffer is the initial code  *)
(* of the create followed by the texts of all updates emitted for the      *)
(* current identifier, so the created content with the updates appended is *)
(* marker + language + newline + code buffer.                              *)
(***************************************************************************)
C18_BufferMatchesUpdates ==
    artifact_id # 0 =>
        LET evs == SelectSeq(emitted, IsCurrentArtifact)
            header == 3 + Len(language) + 1
        IN /\ Len(evs) >= 1
           /\ evs[1].op = "create"
           /\ code_buffer = SubSeq(evs[1].text, header + 1, Len(evs[1].text))
                                \o ConcatText(Tail(evs))
           /\ ConcatText(evs) = <<BQ, BQ, BQ>> \o language \o <<NL>> \o code_buffer

C18_Witness ==
    /\ artifact_id # 0
    /\ Len(SelectSeq(emitted, IsCurrentArtifact)) = 3
    /\ ~in_code_block
    /\ code_buffer # <<>>

(***************************************************************************)
(* C19: when the stream ends normally exactly one final message is stored, *)
(* after all text and artifact events; its text is the concatenation of    *)
(* the non-empty content deltas received, whatever the parser state; no    *)
(* error message is emitted on that path; over any run at most one agent   *)
(* message is stored.                                                      *)
(***************************************************************************)
C19_FinalMessageIsWholeResponse ==
    LET kept == SelectSeq(stored, IsMessage)
    IN /\ Len(kept) <= 1
       /\ Len(kept) = 1 => pc = "done"
       /\ Completed =>
             /\ Len(kept) = 1
             /\ kept[1].lit = ""
             /\ kept[1].text = Flatten(deltas)
             /\ stored[Len(stored)] = kept[1]
             /\ SelectSeq(emitted, IsMessage) = <<>>

C19_Witness ==
    /\ Completed
    /\ in_code_block
    /\ Len(deltas) = 2
    /\ stored[Len(stored)].kind = "message"
    /\ stored[Len(stored)].text = deltas[1] \o deltas[2]

(***************************************************************************)
(* C20: context.store receives an artifact exactly once per opened block,  *)
(* at the create, never for an update or a closing update; the stored      *)
(* artifacts are as many as the blocks opened and each holds only the      *)
(* fence header and the initial code of its opening chunk.                 *)
(***************************************************************************)
C20_OnlyCreatesStored ==
    LET kept == SelectSeq(stored, IsArtifact)
    IN /\ kept = SelectSeq(emitted, IsCreate)
       /\ Len(kept) = next_id
       /\ Len(kept) = Cardinality(ArtifactOps("create"))
       /\ \A i \in DOMAIN ContentEvents :
             (i <= Len(deltas) /\ ContentEvents[i].op = "create") =>
                LET rem == SubSeq(deltas[i], FindMarkerFrom(deltas[i], 1) + 3, Len(deltas[i]))
                IN ContentEvents[i].text =
                      <<BQ, BQ, BQ>> \o DeclaredLanguage(rem) \o <<NL>> \o DeclaredCode(rem)

C20_Witness ==
    /\ Len(SelectSeq(stored, IsArtifact)) = 1
    /\ ArtifactOps("update") # {}
    /\ ArtifactOps("final") # {}

====
